---- MODULE Spec2Model ----
(***************************************************************************)
(* Model of src/ospf.py (class OSPFTopology): loading a topology           *)
(* description, detecting the topology type, building the link graph,      *)
(* the multi-path Dijkstra and the routing-table synthesis.                *)
(*                                                                         *)
(* Encoding of the data:                                                   *)
(*   router names      integers 1..MaxRouters (the names "R1", "R2", ...   *)
(*                     in their string order); UnknownRouter is a name     *)
(*                     that no router of the description carries           *)
(*   interface names   integers, unique within a router                    *)
(*   networks, areas   integers (networks are compared through str())      *)
(*   IP addresses      pairs <<router, interface>>; NoIp is Python's None  *)
(*   declared areas    the string keys of the JSON object "areas"          *)
(*   Python dicts      sequences, in insertion (= iteration) order         *)
(***************************************************************************)
EXTENDS Integers, Sequences, FiniteSets, TLC

\* ------------------------------------------------------------------ bounds
MaxRouters == 4
MaxCost == 2
MaxArea == 1

\* ------------------------------------------------------- program constants
\* None (connected_router of a stub interface)
None == 0
\* float('inf')
Inf == 1000000
\* len(self.routers) == 4 names a ring
RingSize == 4

NoIp == <<>>
UnknownRouter == MaxRouters + 1
NoMetadata == <<>>

VARIABLES config, pc, routers, areas, topology_type, graph,
          router_name, distances, all_paths, ospf_routes

vars == <<config, pc, routers, areas, topology_type, graph,
          router_name, distances, all_paths, ospf_routes>>

\* ----------------------------------------------------------------- helpers
Range(s) == {s[i] : i \in DOMAIN s}

Min2(a, b) == IF a <= b THEN a ELSE b

Max2(a, b) == IF a <= b THEN b ELSE a

Reverse(s) == [i \in 1..Len(s) |-> s[Len(s) + 1 - i]]

Last(s) == s[Len(s)]

\* all orderings of the elements of a finite set
Perms(S) == {p \in [1..Cardinality(S) -> S] : Range(p) = S}

\* the router object of that name, or None: self.routers.get(name)
RouterNames(rs) == {rs[i].name : i \in DOMAIN rs}

GetRouter(rs, name) == rs[CHOOSE i \in DOMAIN rs : rs[i].name = name]

\* ---------------------------------------------------- topology descriptions
\* A link declaration: the two interfaces a JSON description gives to the
\* ends a and b of one link.  da / db tell whether that end names the other
\* one in "connected_to" (an end that does not is a stub interface on the
\* same network).  "connected_to" has its string form: no neighbour IP.
Link(k, a, b, network, area, ca, cb, da, db) ==
    [k |-> k, a |-> a, b |-> b, network |-> network, area |-> area,
     ca |-> ca, cb |-> cb, da |-> da, db |-> db]

\* the interface configuration the link gives to router r
IntfConfig(l, r) ==
    LET atA == (r = l.a) IN
    [name |-> l.k, ip |-> <<r, l.k>>, network |-> l.network,
     cost |-> IF atA THEN l.ca ELSE l.cb, area |-> l.area,
     connected_to |-> IF atA THEN (IF l.da THEN l.b ELSE None)
                             ELSE (IF l.db THEN l.a ELSE None),
     neighbor_ip |-> NoIp]

RECURSIVE IntfConfigs(_, _, _)
IntfConfigs(links, r, i) ==
    IF i > Len(links) THEN <<>>
    ELSE (IF r \in {links[i].a, links[i].b} THEN <<IntfConfig(links[i], r)>> ELSE <<>>)
         \o IntfConfigs(links, r, i + 1)

\* the description: routers in the given order, each with its interfaces in
\* link order (or the reverse of it)
MkConfig(order, links, rev, declared, metadata) ==
    [routers |-> [i \in DOMAIN order |->
                    [name |-> order[i],
                     interfaces |-> IF rev THEN Reverse(IntfConfigs(links, order[i], 1))
                                           ELSE IntfConfigs(links, order[i], 1)]],
     areas |-> declared,
     topology_metadata |-> metadata]

Sizes == {MaxRouters - 1, MaxRouters}

Identity(n) == [i \in 1..n |-> i]

\* the ring of n routers: link i joins router i and its successor
RingEnd(i, n) == (i % n) + 1

\* Family A: a ring of n routers plus the chord 1-3 in one area, each link
\* with one cost at both ends.  Link 1 is absent or costs 0..MaxCost, links
\* 2 and 3 cost 0..MaxCost, the later ring links are absent or cost 1, the
\* chord is absent or costs 0..MaxCost + 1.  The routers in ascending or
\* descending order.
Absent == 0 - 1

CostChoice(n, i) ==
    IF i = 1 THEN {Absent} \cup (0..MaxCost)
    ELSE IF i > n THEN Absent..(MaxCost + 1)
    ELSE IF i <= 3 /\ i < n THEN 0..MaxCost
    ELSE {Absent, 1}

CostChoices(n) == {ch \in [1..(n + 1) -> Absent..(MaxCost + 1)] :
                      \A i \in 1..(n + 1) : ch[i] \in CostChoice(n, i)}

LinksA(n, ch) ==
    LET all == [i \in 1..(n + 1) |->
                  IF i <= n THEN Link(i, i, RingEnd(i, n), i, 0, ch[i], ch[i], TRUE, TRUE)
                            ELSE Link(i, 1, 3, i, 0, ch[i], ch[i], TRUE, TRUE)]
    IN SelectSeq(all, LAMBDA l : l.ca >= 0)

ConfigsA ==
    {MkConfig(IF rev THEN Reverse(Identity(n)) ELSE Identity(n),
              LinksA(n, ch), FALSE, {"0"}, NoMetadata) :
        <<n, ch, rev>> \in UNION {{<<m, c, r>> : c \in CostChoices(m), r \in BOOLEAN}
                                  : m \in Sizes}}

\* Family B: three routers; link 1 joins 1 and 2 with a cost of its own at
\* each end, link 2 joins 1 with router 2 again (which declares it back, or
\* has a stub interface there) or with a name no router carries, in an area
\* and with a cost of its own, link 3 joins 2 and 3 on a network of its own
\* or on the network of link 1.  Every order of the routers, both orders of
\* the interfaces.
LinksB(a1, ca, cb, x, a2, c2, db, n3) ==
    << Link(1, 1, 2, 1, a1, ca, cb, TRUE, TRUE),
       Link(2, 1, x, 2, a2, c2, c2, TRUE, db),
       Link(3, 2, 3, n3, 0, 1, 1, TRUE, TRUE) >>

ConfigsB ==
    {MkConfig(order, LinksB(p[1], p[2], p[3], p[4], p[5], p[6], p[7], p[8]), rev,
              {"0", "1"}, NoMetadata) :
        <<order, p, rev>> \in
            Perms({1, 2, 3})
            \X ((0..MaxArea) \X (1..MaxCost) \X {1, MaxCost} \X {2, UnknownRouter}
                \X {0, MaxArea} \X {1, MaxCost} \X BOOLEAN \X {1, 3})
            \X BOOLEAN}

\* Family C: a ring of n routers with cost 1 whose first two links lie in
\* areas of their own, under every set of declared areas and every declared
\* or absent topology type.
AreaKeys == {"0", "1", "2"}

DeclaredTypes == {"single_area", "single_area_ring", "multi_area", "hub_and_spoke"}

LinksC(n, ar) ==
    [i \in 1..n |-> Link(i, i, RingEnd(i, n), i, IF i <= 2 THEN ar[i] ELSE 0, 1, 1, TRUE, TRUE)]

ConfigsC ==
    {MkConfig(Identity(n), LinksC(n, ar), FALSE, declared, metadata) :
        <<n, ar, declared, metadata>> \in
            UNION {{<<m, a, d, t>> : a \in [1..2 -> 0..MaxArea],
                                     d \in SUBSET AreaKeys,
                                     t \in {NoMetadata} \cup {[type |-> ty] : ty \in DeclaredTypes}}
                   : m \in Sizes}}

\* Family D: three routers in one area; link 1 joins 1 and 2 and link 2
\* joins 2 and 3 at cost 1, link 3 joins 1 and 3 at cost 2, so that router
\* 1 reaches router 3 at equal cost directly and through router 2.  Each
\* link is declared at both ends or at one of them only (the other end is a
\* stub interface on the network).  The routers in ascending or descending
\* order.
Declarations == {<<TRUE, TRUE>>, <<TRUE, FALSE>>, <<FALSE, TRUE>>}

LinksD(d) ==
    << Link(1, 1, 2, 1, 0, 1, 1, d[1][1], d[1][2]),
       Link(2, 2, 3, 2, 0, 1, 1, d[2][1], d[2][2]),
       Link(3, 1, 3, 3, 0, 2, 2, d[3][1], d[3][2]) >>

ConfigsD ==
    {MkConfig(IF rev THEN Reverse(Identity(3)) ELSE Identity(3),
              LinksD(d), FALSE, {"0"}, NoMetadata) :
        <<d, rev>> \in [1..3 -> Declarations] \X BOOLEAN}

Configs == ConfigsA \cup ConfigsB \cup ConfigsC \cup ConfigsD

\* -------------------------------------------------------- load_configuration
\* OSPFInterface built from one interface configuration (lines 61-78)
LoadInterface(ic) ==
    [name |-> ic.name, ip_address |-> ic.ip, network |-> ic.network,
     cost |-> ic.cost, area |-> ic.area,
     connected_router |-> ic.connected_to, neighbor_ip |-> ic.neighbor_ip]

\* OSPFRouter built from one router configuration (lines 57-80)
LoadRouter(rc) ==
    [name |-> rc.name,
     areas |-> {rc.interfaces[j].area : j \in DOMAIN rc.interfaces},
     interfaces |-> [j \in DOMAIN rc.interfaces |-> LoadInterface(rc.interfaces[j])]]

\* the first interface of the neighbour that points back on the same network
RECURSIVE FindNeighborIp(_, _, _, _)
FindNeighborIp(nintfs, name, interface, j) ==
    IF j > Len(nintfs) THEN interface.neighbor_ip
    ELSE IF nintfs[j].connected_router = name /\ nintfs[j].network = interface.network
         THEN nintfs[j].ip_address
         ELSE FindNeighborIp(nintfs, name, interface, j + 1)

ResolveInterface(rs, name, interface) ==
    IF interface.connected_router # None /\ interface.neighbor_ip = NoIp
       /\ interface.connected_router \in RouterNames(rs)
    THEN [interface EXCEPT !.neighbor_ip =
             FindNeighborIp(GetRouter(rs, interface.connected_router).interfaces,
                            name, interface, 1)]
    ELSE interface

\* _resolve_neighbor_ips: it reads only fields it never writes, so the
\* loop is a map over the interfaces
resolve_neighbor_ips(rs) ==
    [i \in DOMAIN rs |->
        [rs[i] EXCEPT !.interfaces =
            [j \in DOMAIN rs[i].interfaces |->
                ResolveInterface(rs, rs[i].name, rs[i].interfaces[j])]]]

load_configuration(cfg) ==
    resolve_neighbor_ips([i \in DOMAIN cfg.routers |-> LoadRouter(cfg.routers[i])])

\* ------------------------------------------------------ detect_topology_type
\* a detection that asks for more than one router in several areas
DetectWithTwoBorderRouters(cfg, rs, declared) ==
    IF "type" \in DOMAIN cfg.topology_metadata THEN cfg.topology_metadata.type
    ELSE IF Cardinality(declared) <= 1
         THEN (IF Len(rs) = RingSize THEN "single_area_ring" ELSE "single_area")
         ELSE IF "0" \in declared
                 /\ Cardinality({i \in DOMAIN rs : Cardinality(rs[i].areas) > 1}) > 1
              THEN "multi_area"
              ELSE "single_area"

detect_topology_type(cfg, rs, declared) ==
    LET metadata == cfg.topology_metadata
        total_areas == Cardinality(declared)
        has_area_0 == "0" \in declared
        abr_count == Cardinality({i \in DOMAIN rs : Cardinality(rs[i].areas) > 1})
    IN IF "type" \in DOMAIN metadata THEN metadata.type
       ELSE IF total_areas <= 1
            THEN (IF Len(rs) = RingSize THEN "single_area_ring" ELSE "single_area")
            ELSE IF has_area_0 /\ abr_count > 0 THEN "multi_area"
                 ELSE "single_area"

\* ------------------------------------------------------------ build_topology
\* nx.Graph: nodes in insertion order, adj[u] the neighbours of u in
\* insertion order, attrs the one attribute dict an unordered pair has
EmptyGraph == [nodes |-> <<>>, adj |-> <<>>, attrs |-> <<>>]

Nodes(g) == Range(g.nodes)

Edges(g) == DOMAIN g.attrs

add_node(g, n) ==
    IF n \in Nodes(g) THEN g
    ELSE [g EXCEPT !.nodes = Append(g.nodes, n), !.adj = (n :> <<>>) @@ g.adj]

\* Graph.add_edge(u, v, **attr): a simple graph; the attributes of an edge
\* that exists are updated in place
add_edge(g, u, v, attr) ==
    LET g1 == add_node(add_node(g, u), v)
        e == {u, v}
    IN IF e \in DOMAIN g1.attrs
       THEN [g1 EXCEPT !.attrs = [g1.attrs EXCEPT ![e] = attr]]
       ELSE [g1 EXCEPT !.attrs = (e :> attr) @@ g1.attrs,
                       !.adj = IF u = v THEN [g1.adj EXCEPT ![u] = Append(@, v)]
                               ELSE [g1.adj EXCEPT ![u] = Append(@, v),
                                                   ![v] = Append(@, u)]]

\* a key that leaves out the router pair
LinkKeyAreaOnly(name, intf) == <<None, None, intf.area>>

\* f"{tuple(sorted([router_name, intf.connected_router]))}_{intf.area}"
link_key(name, intf) ==
    <<Min2(name, intf.connected_router), Max2(name, intf.connected_router), intf.area>>

EdgeAttr(intf) == [weight |-> intf.cost, area |-> intf.area, network |-> intf.network]

\* lines 135-141 for one interface; st = [graph, processed_links]
AddLink(st, name, intf) ==
    IF intf.connected_router # None /\ link_key(name, intf) \notin st.processed_links
    THEN [graph |-> add_edge(st.graph, name, intf.connected_router, EdgeAttr(intf)),
          processed_links |-> st.processed_links \cup {link_key(name, intf)}]
    ELSE st

RECURSIVE AddLinks(_, _, _, _)
AddLinks(st, name, intfs, j) ==
    IF j > Len(intfs) THEN st
    ELSE AddLinks(AddLink(st, name, intfs[j]), name, intfs, j + 1)

RECURSIVE AddRouterLinks(_, _, _)
AddRouterLinks(st, rs, i) ==
    IF i > Len(rs) THEN st
    ELSE AddRouterLinks(AddLinks(st, rs[i].name, rs[i].interfaces, 1), rs, i + 1)

RECURSIVE AddNodes(_, _, _)
AddNodes(g, rs, i) ==
    IF i > Len(rs) THEN g ELSE AddNodes(add_node(g, rs[i].name), rs, i + 1)

build_topology(g, rs) ==
    AddRouterLinks([graph |-> AddNodes(g, rs, 1), processed_links |-> {}], rs, 1).graph

\* ------------------------------------------------------- dijkstra_multi_path
\* self.graph[node][neighbor]['weight']
Weight(g, u, v) == g.attrs[{u, v}].weight

\* [path + [neighbor] for path in paths]
ExtendPaths(paths, neighbor) == [i \in DOMAIN paths |-> Append(paths[i], neighbor)]

\* heapq.heappop: the least (dist, node) tuple.  A node is pushed only when
\* its distance strictly improves, so the heap never holds a tuple twice and
\* a set of tuples represents it.
HeapMin(pq) ==
    CHOOSE e \in pq : \A f \in pq : e[1] < f[1] \/ (e[1] = f[1] /\ e[2] <= f[2])

\* an improvement that extends the neighbour's paths where it must replace
\* them
RelaxExtendsOnImprovement(g, st, dist, node, neighbor) ==
    LET new_dist == dist + g.attrs[{node, neighbor}].weight IN
    IF new_dist < st.distances[neighbor]
    THEN [distances |-> [st.distances EXCEPT ![neighbor] = new_dist],
          paths |-> [st.paths EXCEPT ![neighbor] =
                        @ \o [i \in DOMAIN st.paths[node] |-> Append(st.paths[node][i], neighbor)]],
          pq |-> st.pq \cup {<<new_dist, neighbor>>}]
    ELSE IF new_dist = st.distances[neighbor]
         THEN [st EXCEPT !.paths[neighbor] =
                  @ \o [i \in DOMAIN st.paths[node] |-> Append(st.paths[node][i], neighbor)]]
         ELSE st

\* lines 154-161 for one neighbour; st = [distances, paths, pq].  A key of
\* the defaultdict paths exists exactly when its list is not empty.
Relax(g, st, dist, node, neighbor) ==
    LET new_dist == dist + Weight(g, node, neighbor) IN
    IF new_dist < st.distances[neighbor]
    THEN [distances |-> [st.distances EXCEPT ![neighbor] = new_dist],
          paths |-> [st.paths EXCEPT ![neighbor] = ExtendPaths(st.paths[node], neighbor)],
          pq |-> st.pq \cup {<<new_dist, neighbor>>}]
    ELSE IF new_dist = st.distances[neighbor]
         THEN [st EXCEPT !.paths[neighbor] = @ \o ExtendPaths(st.paths[node], neighbor)]
         ELSE st

RECURSIVE RelaxAll(_, _, _, _, _)
RelaxAll(g, st, dist, node, j) ==
    IF j > Len(g.adj[node]) THEN st
    ELSE RelaxAll(g, Relax(g, st, dist, node, g.adj[node][j]), dist, node, j + 1)

\* the while loop of lines 149-161
RECURSIVE DijkstraLoop(_, _)
DijkstraLoop(g, st) ==
    IF st.pq = {} THEN st
    ELSE LET e == HeapMin(st.pq)
             popped == [st EXCEPT !.pq = @ \ {e}]
         IN IF e[1] > st.distances[e[2]]
            THEN DijkstraLoop(g, popped)
            ELSE DijkstraLoop(g, RelaxAll(g, popped, e[1], e[2], 1))

dijkstra_multi_path(g, source) ==
    DijkstraLoop(g, [distances |-> [n \in Nodes(g) |-> IF n = source THEN 0 ELSE Inf],
                     paths |-> [n \in Nodes(g) |-> IF n = source THEN << <<source>> >> ELSE <<>>],
                     pq |-> {<<0, source>>}])

\* ------------------------------------------------------ determine_route_type
\* a classification that skips the single-area test
RouteTypeByMembershipOnly(ttype, source_router, dest_area) ==
    IF dest_area \in source_router.areas THEN "O" ELSE "O IA"

determine_route_type(ttype, source_router, dest_area) ==
    IF ttype \in {"single_area", "single_area_ring"} THEN "O"
    ELSE IF dest_area \in source_router.areas THEN "O" ELSE "O IA"

\* ------------------------------------- find_next_hop_ip, find_outbound_interface
RECURSIVE FirstInterfaceTo(_, _, _)
FirstInterfaceTo(intfs, next_hop_router, j) ==
    IF j > Len(intfs) THEN None
    ELSE IF intfs[j].connected_router = next_hop_router THEN j
         ELSE FirstInterfaceTo(intfs, next_hop_router, j + 1)

find_next_hop_ip(rs, source_router, next_hop_router) ==
    LET source == GetRouter(rs, source_router)
        j == FirstInterfaceTo(source.interfaces, next_hop_router, 1)
    IN IF j = None THEN NoIp ELSE source.interfaces[j].neighbor_ip

\* the interface's name, or None
find_outbound_interface(rs, source_router, next_hop_router) ==
    LET source == GetRouter(rs, source_router)
        j == FirstInterfaceTo(source.interfaces, next_hop_router, 1)
    IN IF j = None THEN <<>> ELSE <<source.interfaces[j].name>>

\* ---------------------------------------------------- generate_routing_table
\* a test that looks at the first interface of the source only
FirstInterfaceOnNetwork(router, network) ==
    router.interfaces # <<>> /\ router.interfaces[1].network = network

\* lines 184-188
is_directly_connected(router, network) ==
    \E j \in DOMAIN router.interfaces : router.interfaces[j].network = network

\* the keys of next_hop_paths in insertion order: the second routers of the
\* paths of more than one router, each at its first occurrence (lines 194-198)
RECURSIVE NextHops(_, _, _)
NextHops(paths, i, acc) ==
    IF i > Len(paths) THEN acc
    ELSE IF Len(paths[i]) > 1 /\ paths[i][2] \notin Range(acc)
         THEN NextHops(paths, i + 1, Append(acc, paths[i][2]))
         ELSE NextHops(paths, i + 1, acc)

\* lines 200-207 for one next hop.  An entry carries, besides the five keys
\* of route_entry, the values of the loop variables dest_router_name,
\* intf_name and next_hop_router at the time it was appended.
\* an entry as soon as one of the two values is resolved
RouteEntriesIfEitherResolved(rs, ttype, dist, src, dest, interface, next_hop_router) ==
    IF find_next_hop_ip(rs, src, next_hop_router) # NoIp
       \/ find_outbound_interface(rs, src, next_hop_router) # <<>>
    THEN << [network |-> interface.network,
             next_hop |-> find_next_hop_ip(rs, src, next_hop_router),
             cost |-> dist[dest.name] + interface.cost,
             via_interface |-> find_outbound_interface(rs, src, next_hop_router)[1],
             route_type |-> determine_route_type(ttype, GetRouter(rs, src), interface.area),
             dest_router_name |-> dest.name, intf_name |-> interface.name,
             next_hop_router |-> next_hop_router] >>
    ELSE <<>>

RouteEntries(rs, ttype, dist, src, dest, interface, next_hop_router) ==
    LET total_cost == dist[dest.name] + interface.cost
        route_type == determine_route_type(ttype, GetRouter(rs, src), interface.area)
        next_hop_ip == find_next_hop_ip(rs, src, next_hop_router)
        outbound_interface == find_outbound_interface(rs, src, next_hop_router)
    IN IF next_hop_ip # NoIp /\ outbound_interface # <<>>
       THEN << [network |-> interface.network, next_hop |-> next_hop_ip,
                cost |-> total_cost, via_interface |-> outbound_interface[1],
                route_type |-> route_type,
                dest_router_name |-> dest.name, intf_name |-> interface.name,
                next_hop_router |-> next_hop_router] >>
       ELSE <<>>

RECURSIVE FanOut(_, _, _, _, _, _, _, _)
FanOut(rs, ttype, dist, src, dest, interface, hops, i) ==
    IF i > Len(hops) THEN <<>>
    ELSE RouteEntries(rs, ttype, dist, src, dest, interface, hops[i])
         \o FanOut(rs, ttype, dist, src, dest, interface, hops, i + 1)

\* a visit that does not skip the networks already processed
VisitInterfaceAgain(rs, ttype, dj, src, dest, interface, st) ==
    IF \E j \in DOMAIN GetRouter(rs, src).interfaces :
           GetRouter(rs, src).interfaces[j].network = interface.network
    THEN st
    ELSE [processed_networks |-> st.processed_networks \cup {interface.network},
          ospf_routes |->
              st.ospf_routes \o
              (IF dj.paths[dest.name] # <<>>
               THEN FanOut(rs, ttype, dj.distances, src, dest, interface,
                           NextHops(dj.paths[dest.name], 1, <<>>), 1)
               ELSE <<>>)]

\* lines 181-207 for one interface of a destination router;
\* st = [ospf_routes, processed_networks]
VisitInterface(rs, ttype, dj, src, dest, interface, st) ==
    IF interface.network \in st.processed_networks THEN st
    ELSE IF is_directly_connected(GetRouter(rs, src), interface.network) THEN st
    ELSE [processed_networks |-> st.processed_networks \cup {interface.network},
          ospf_routes |->
              st.ospf_routes \o
              (IF dj.paths[dest.name] # <<>>
               THEN FanOut(rs, ttype, dj.distances, src, dest, interface,
                           NextHops(dj.paths[dest.name], 1, <<>>), 1)
               ELSE <<>>)]

RECURSIVE VisitInterfaces(_, _, _, _, _, _, _)
VisitInterfaces(rs, ttype, dj, src, dest, j, st) ==
    IF j > Len(dest.interfaces) THEN st
    ELSE VisitInterfaces(rs, ttype, dj, src, dest, j + 1,
                         VisitInterface(rs, ttype, dj, src, dest, dest.interfaces[j], st))

RECURSIVE VisitRouters(_, _, _, _, _, _)
VisitRouters(rs, ttype, dj, src, i, st) ==
    IF i > Len(rs) THEN st
    ELSE VisitRouters(rs, ttype, dj, src, i + 1,
                      IF rs[i].name # src
                      THEN VisitInterfaces(rs, ttype, dj, src, rs[i], 1, st)
                      ELSE st)

generate_routing_table(rs, ttype, dj, src) ==
    VisitRouters(rs, ttype, dj, src, 1,
                 [ospf_routes |-> <<>>, processed_networks |-> {}]).ospf_routes

\* ------------------------------------------------------------ state machine
\* OSPFTopology.__init__ up to line 39, for one topology description
Init ==
    /\ config \in Configs
    /\ pc = "init"
    /\ routers = <<>>
    /\ areas = {}
    /\ topology_type = "unknown"
    /\ graph = EmptyGraph
    /\ router_name = None
    /\ distances = <<>>
    /\ all_paths = <<>>
    /\ ospf_routes = <<>>

LoadConfiguration ==
    /\ pc = "init"
    /\ areas' = config.areas
    /\ routers' = load_configuration(config)
    /\ pc' = "loaded"
    /\ UNCHANGED <<config, topology_type, graph, router_name, distances, all_paths, ospf_routes>>

DetectTopologyType ==
    /\ pc = "loaded"
    /\ topology_type' = detect_topology_type(config, routers, areas)
    /\ pc' = "detected"
    /\ UNCHANGED <<config, routers, areas, graph, router_name, distances, all_paths, ospf_routes>>

BuildTopology ==
    /\ pc = "detected"
    /\ graph' = build_topology(graph, routers)
    /\ pc' = "built"
    /\ UNCHANGED <<config, routers, areas, topology_type, router_name, distances, all_paths, ospf_routes>>

\* main (lines 383-384): print_routing_table, hence generate_routing_table,
\* for every router of self.routers in iteration order.  Position of the
\* router the next call is for:
NextRouter ==
    IF router_name = None THEN 1
    ELSE 1 + CHOOSE i \in DOMAIN routers : routers[i].name = router_name

GenerateRoutingTable(name) ==
    /\ pc \in {"built", "routed"}
    /\ LET dj == dijkstra_multi_path(graph, name) IN
         /\ distances' = dj.distances
         /\ all_paths' = dj.paths
         /\ ospf_routes' = generate_routing_table(routers, topology_type, dj, name)
    /\ router_name' = name
    /\ pc' = "routed"
    /\ UNCHANGED <<config, routers, areas, topology_type, graph>>

Next ==
    \/ LoadConfiguration
    \/ DetectTopologyType
    \/ BuildTopology
    \/ \E i \in DOMAIN routers : i = NextRouter /\ GenerateRoutingTable(routers[i].name)

Spec == Init /\ [][Next]_vars

\* =================================================================== claims
\* Reference notions, defined on the graph alone.
PathWeight(g, p) ==
    LET RECURSIVE Sum(_)
        Sum(i) == IF i >= Len(p) THEN 0 ELSE Weight(g, p[i], p[i + 1]) + Sum(i + 1)
    IN Sum(1)

FollowsEdges(g, p) == \A i \in 1..(Len(p) - 1) : {p[i], p[i + 1]} \in Edges(g)

IsSimple(p) == \A i, j \in DOMAIN p : i # j => p[i] # p[j]

NoDuplicates(s) == \A i, j \in DOMAIN s : i # j => s[i] # s[j]

SetMin(S) == CHOOSE x \in S : \A y \in S : x <= y

\* one more edge: from the least weights prev of the walks of at most k
\* edges to those of the walks of at most k + 1 edges, node by node
StepAt(g, prev, n) ==
    SetMin({prev[n]} \cup {prev[u] + Weight(g, u, n) :
                             u \in {v \in Nodes(g) : {v, n} \in Edges(g) /\ prev[v] < Inf}})

RECURSIVE WalkStepFrom(_, _, _)
WalkStepFrom(g, prev, i) ==
    IF i > Len(g.nodes) THEN <<>>
    ELSE (g.nodes[i] :> StepAt(g, prev, g.nodes[i])) @@ WalkStepFrom(g, prev, i + 1)

WalkStep(g, prev) == WalkStepFrom(g, prev, 1)

\* least total weight of the walks of at most k more edges
RECURSIVE WalkDist(_, _, _)
WalkDist(g, prev, k) == IF k = 0 THEN prev ELSE WalkDist(g, WalkStep(g, prev), k - 1)

\* least total weight of the walks from s to each node: a walk of more edges
\* than there are nodes only repeats routers
ShortestWalk(g, s) ==
    WalkDist(g, [n \in Nodes(g) |-> IF n = s THEN 0 ELSE Inf], Len(g.nodes))

\* the simple paths from s of at most k edges
RECURSIVE SimplePaths(_, _, _)
SimplePaths(g, s, k) ==
    IF k = 0 THEN {<<s>>}
    ELSE LET prev == SimplePaths(g, s, k - 1) IN
         prev \cup {Append(p, v) : <<p, v>> \in
                       {q \in prev \X Nodes(g) : q[2] \notin Range(q[1])
                                                  /\ {Last(q[1]), q[2]} \in Edges(g)}}

MinCostSimplePaths(g, s, d) ==
    {p \in SimplePaths(g, s, Cardinality(Nodes(g))) :
        Last(p) = d /\ PathWeight(g, p) = ShortestWalk(g, s)[d]}

NonNegativeWeights(g) == \A e \in Edges(g) : g.attrs[e].weight >= 0

PositiveWeights(g) == \A e \in Edges(g) : g.attrs[e].weight > 0

Routed == pc = "routed"

\* C1: with non-negative edge weights, dijkstra_multi_path(source) gives
\* distances[source] = 0; every recorded path to a router d starts at the
\* source, ends at d, follows edges of the graph and weighs exactly
\* distances[d], and no walk from the source to d weighs less; a router not
\* connected to the source keeps distance +infinity and has no recorded path.
C1_DistancesAndPathsSound ==
    (Routed /\ NonNegativeWeights(graph)) =>
        LET best == ShortestWalk(graph, router_name) IN
        /\ distances[router_name] = 0
        /\ \A d \in Nodes(graph) :
             /\ \A i \in DOMAIN all_paths[d] :
                  LET p == all_paths[d][i] IN
                  /\ p[1] = router_name
                  /\ Last(p) = d
                  /\ FollowsEdges(graph, p)
                  /\ PathWeight(graph, p) = distances[d]
             /\ all_paths[d] # <<>> => distances[d] <= best[d]
             /\ best[d] = Inf => (distances[d] = Inf /\ all_paths[d] = <<>>)

\* a source with a tie: some router has two recorded paths, and some router
\* is not connected to the source
C1_Witness ==
    /\ Routed
    /\ \E d \in Nodes(graph) : Len(all_paths[d]) >= 2 /\ distances[d] >= 2
    /\ \E d \in Nodes(graph) : distances[d] = Inf

\* C2: with non-negative edge weights, zero included, the paths recorded for
\* a reachable router d are exactly the minimum-cost simple paths from the
\* source to d, none missing, none listed twice, none visiting a router twice.
C2_ExactlyAllMinCostSimplePaths ==
    (Routed /\ NonNegativeWeights(graph)) =>
        \A d \in Nodes(graph) :
            distances[d] < Inf =>
                /\ Range(all_paths[d]) = MinCostSimplePaths(graph, router_name, d)
                /\ NoDuplicates(all_paths[d])
                /\ \A i \in DOMAIN all_paths[d] : IsSimple(all_paths[d][i])

\* the same statement for strictly positive weights only
PositiveWeightsAllMinCostSimplePaths ==
    (Routed /\ PositiveWeights(graph)) =>
        \A d \in Nodes(graph) :
            distances[d] < Inf =>
                /\ Range(all_paths[d]) = MinCostSimplePaths(graph, router_name, d)
                /\ NoDuplicates(all_paths[d])
                /\ \A i \in DOMAIN all_paths[d] : IsSimple(all_paths[d][i])

\* ---------------------------------------------------------- routing tables
Entries == Range(ospf_routes)

Built == pc \in {"built", "routed"}

\* the description of the router of that name, as the JSON gives it
ConfigRouter(name) ==
    config.routers[CHOOSE i \in DOMAIN config.routers : config.routers[i].name = name]

ConfigNames == {config.routers[i].name : i \in DOMAIN config.routers}

\* networks and area memberships of a router, read off the description
NetworksOf(name) ==
    {ConfigRouter(name).interfaces[j].network : j \in DOMAIN ConfigRouter(name).interfaces}

AreasOf(name) ==
    {ConfigRouter(name).interfaces[j].area : j \in DOMAIN ConfigRouter(name).interfaces}

\* positions <<router, interface>> of all interfaces; those of the
\* interfaces on network n of the routers other than src, and the first of
\* them in iteration order
Positions(rs) == UNION {{<<i, j>> : j \in DOMAIN rs[i].interfaces} : i \in DOMAIN rs}

OnNetwork(src, n) ==
    {q \in Positions(config.routers) :
        /\ config.routers[q[1]].name # src
        /\ config.routers[q[1]].interfaces[q[2]].network = n}

FirstOnNetwork(src, n) ==
    CHOOSE q \in OnNetwork(src, n) :
        \A r \in OnNetwork(src, n) : q[1] < r[1] \/ (q[1] = r[1] /\ q[2] <= r[2])

\* second routers of the minimum-cost simple paths from s to d
MinCostNextHops(g, s, d) == {p[2] : p \in {q \in MinCostSimplePaths(g, s, d) : Len(q) > 1}}

\* the ring of RingSize routers with cost 1 on every link, and nothing else
UniformRing ==
    /\ Len(config.routers) = RingSize
    /\ Edges(graph) = {{i, RingEnd(i, RingSize)} : i \in 1..RingSize}
    /\ \A e \in Edges(graph) : graph.attrs[e].weight = 1
    /\ \A i \in DOMAIN config.routers : \A j \in DOMAIN config.routers[i].interfaces :
           config.routers[i].interfaces[j].cost = 1

TwoHopsAway(r) == ((r + 1) % RingSize) + 1

\* C3: whenever two distinct next hops of the source lead to minimum-cost
\* paths to a destination router, the routing table holds, under each network
\* of that destination that is not attached to the source, one entry for each
\* of the two next hops, of equal cost; and in the ring of 4 routers with
\* cost 1 every router has, for the router two hops away, two entries of
\* cost 2 on one network via two distinct next hops.  Stated for graphs of
\* positive weights.
C3_EcmpEntriesForEveryTiedNextHop ==
    (Routed /\ PositiveWeights(graph)) =>
        /\ \A d \in ConfigNames \ {router_name} :
             \A h1, h2 \in MinCostNextHops(graph, router_name, d) :
                h1 # h2 =>
                    \A n \in NetworksOf(d) \ NetworksOf(router_name) :
                        \E e1, e2 \in Entries :
                            /\ e1.network = n /\ e2.network = n
                            /\ e1.next_hop_router = h1 /\ e2.next_hop_router = h2
                            /\ e1.cost = e2.cost
        /\ UniformRing =>
             \E n \in NetworksOf(TwoHopsAway(router_name)) :
                \E e1, e2 \in Entries :
                    /\ e1.network = n /\ e2.network = n
                    /\ e1.next_hop_router # e2.next_hop_router
                    /\ e1.cost = 2 /\ e2.cost = 2

\* C4: the routing table of a source holds no entry for a network of one of
\* the source's own interfaces.
C4_NoEntryForAttachedNetwork ==
    Routed => \A e \in Entries : e.network \notin NetworksOf(router_name)

\* the table has entries, and a network of the source is also a network of
\* two other routers, one of them reachable
C4_Witness ==
    /\ Routed
    /\ ospf_routes # <<>>
    /\ \E n \in NetworksOf(router_name) :
          \E d1, d2 \in ConfigNames \ {router_name} :
              /\ d1 # d2
              /\ n \in NetworksOf(d1) /\ n \in NetworksOf(d2)
              /\ all_paths[d1] # <<>>

\* C5: all entries of one network derive from the first interface on that
\* network in router / interface iteration order among the routers other
\* than the source: they carry that router and interface, their cost is
\* distances[that router] + that interface's cost, and no two entries share
\* a network and a next-hop router.
C5_NetworkProcessedOnce ==
    Routed =>
        /\ \A e \in Entries :
             LET q == FirstOnNetwork(router_name, e.network)
                 dest == config.routers[q[1]]
             IN /\ e.dest_router_name = dest.name
                /\ e.intf_name = dest.interfaces[q[2]].name
                /\ e.cost = distances[dest.name] + dest.interfaces[q[2]].cost
        /\ \A i, j \in DOMAIN ospf_routes :
             (i # j /\ ospf_routes[i].network = ospf_routes[j].network)
                 => ospf_routes[i].next_hop_router # ospf_routes[j].next_hop_router

\* a network with two entries that a later router, at another distance or
\* with another cost, is on as well
C5_Witness ==
    /\ Routed
    /\ \E i, j \in DOMAIN ospf_routes :
          /\ i # j
          /\ ospf_routes[i].network = ospf_routes[j].network
          /\ \E q \in OnNetwork(router_name, ospf_routes[i].network) :
                /\ q # FirstOnNetwork(router_name, ospf_routes[i].network)
                /\ distances[config.routers[q[1]].name] + config.routers[q[1]].interfaces[q[2]].cost
                      # ospf_routes[i].cost

\* ------------------------------------------------------------------- graph
\* positions of the connected interfaces, in iteration order
Connected ==
    {q \in Positions(routers) : routers[q[1]].interfaces[q[2]].connected_router # None}

IntfAt(q) == routers[q[1]].interfaces[q[2]]

KeyAt(q) == <<Min2(routers[q[1]].name, IntfAt(q).connected_router),
              Max2(routers[q[1]].name, IntfAt(q).connected_router),
              IntfAt(q).area>>

LinkKeys == {KeyAt(q) : q \in Connected}

FirstOfKey(k) ==
    CHOOSE q \in Connected :
        /\ KeyAt(q) = k
        /\ \A r \in Connected :
              KeyAt(r) = k => (q[1] < r[1] \/ (q[1] = r[1] /\ q[2] <= r[2]))

\* C6: after build_topology the graph holds exactly one edge for each
\* distinct (unordered router pair, area) that a connected interface
\* declares, with the weight, area and network of the first interface
\* observed for that key; later interfaces of the pair change nothing.
C6_OneEdgePerPairAndArea ==
    Built =>
        /\ Cardinality(Edges(graph)) = Cardinality(LinkKeys)
        /\ \A k \in LinkKeys :
              /\ {k[1], k[2]} \in Edges(graph)
              /\ graph.attrs[{k[1], k[2]}] = EdgeAttr(IntfAt(FirstOfKey(k)))

\* some interface names a router that the description does not have
DeclaresUnknownRouter ==
    \E i \in DOMAIN config.routers : \E j \in DOMAIN config.routers[i].interfaces :
        /\ config.routers[i].interfaces[j].connected_to # None
        /\ config.routers[i].interfaces[j].connected_to \notin ConfigNames

\* C7: when an interface names a connected router that is no router of the
\* topology, construction fails and exposes nothing: it never completes, the
\* graph gets no node or edge for the unknown name, and no distances or
\* routing table are computed.
C7_UnknownRouterAbortsConstruction ==
    DeclaresUnknownRouter =>
        /\ ~Built
        /\ Nodes(graph) \subseteq ConfigNames
        /\ \A e \in Edges(graph) : e \subseteq ConfigNames
        /\ distances = <<>>
        /\ ospf_routes = <<>>

\* the routers, and the interfaces of each, in ascending order of their names
RECURSIVE SortByName(_)
SortByName(s) ==
    IF s = <<>> THEN <<>>
    ELSE LET m == CHOOSE i \in DOMAIN s : \A j \in DOMAIN s : s[i].name <= s[j].name
         IN <<s[m]>> \o SortByName(SubSeq(s, 1, m - 1) \o SubSeq(s, m + 1, Len(s)))

NameOrder(rs) ==
    LET sorted == SortByName(rs)
    IN [i \in DOMAIN sorted |-> [sorted[i] EXCEPT !.interfaces = SortByName(@)]]

\* the graph that the same description gives when its mappings iterate in
\* name order.  Every order of the routers of family B, with both orders of
\* their interfaces, is a description of the model: two orders that give
\* different graphs cannot both agree with this one.
NameOrderGraph == build_topology(EmptyGraph, NameOrder(routers))

\* the costs that the interfaces declaring the link between u and v carry
DeclaredCosts(e) ==
    {IntfAt(q).cost : q \in {r \in Connected : {routers[r[1]].name, IntfAt(r).connected_router} = e}}

\* C8 as stated: any two iteration orders of the routers and of their
\* interfaces give the same nodes, the same edges and the same weight on
\* every edge, also when the two ends of a link declare different costs.
C8_SameGraphInAnyOrder ==
    Built =>
        /\ Nodes(graph) = Nodes(NameOrderGraph)
        /\ Edges(graph) = Edges(NameOrderGraph)
        /\ \A e \in Edges(graph) : graph.attrs[e].weight = NameOrderGraph.attrs[e].weight

\* C8 amended: any two iteration orders give the same nodes and the same
\* edges, and the same weight on every edge whose declaring interfaces all
\* carry one cost.
C8_SameNodesAndEdgesInAnyOrder ==
    Built =>
        LET sorted == NameOrderGraph
        IN /\ Nodes(graph) = Nodes(sorted)
           /\ Edges(graph) = Edges(sorted)
           /\ \A e \in Edges(graph) :
                 Cardinality(DeclaredCosts(e)) = 1
                     => graph.attrs[e].weight = sorted.attrs[e].weight

\* the routers are not in name order, one link has two costs and another
\* edge has one
C8_Witness ==
    /\ Built
    /\ routers # NameOrder(routers)
    /\ \E e \in Edges(graph) : Cardinality(DeclaredCosts(e)) > 1
    /\ \E e \in Edges(graph) : Cardinality(DeclaredCosts(e)) = 1

\* ----------------------------------------------------------- topology type
Detected == pc \in {"detected", "built", "routed"}

SingleArea == {"single_area", "single_area_ring"}

HasAreaBorderRouter == \E name \in ConfigNames : Cardinality(AreasOf(name)) > 1

\* C9: a declared topology_metadata.type is taken as it is; without one the
\* type is a single-area one when fewer than two areas are declared (the
\* ring variant for exactly RingSize routers), multi_area when area "0" is
\* declared and some router is in more than one area, and single_area
\* otherwise.
C9_TopologyTypeDetection ==
    Detected =>
        IF "type" \in DOMAIN config.topology_metadata
        THEN topology_type = config.topology_metadata.type
        ELSE /\ topology_type \in SingleArea \cup {"multi_area"}
             /\ Cardinality(config.areas) < 2 =>
                   /\ topology_type \in SingleArea
                   /\ topology_type = "single_area_ring" <=> Len(config.routers) = RingSize
             /\ (Cardinality(config.areas) >= 2 /\ "0" \in config.areas /\ HasAreaBorderRouter)
                   => topology_type = "multi_area"
             /\ (Cardinality(config.areas) >= 2 /\ ~("0" \in config.areas /\ HasAreaBorderRouter))
                   => topology_type = "single_area"

\* two areas are declared, none of them "0", a router is in two areas, and
\* the type was detected
C9_Witness ==
    /\ Detected
    /\ "type" \notin DOMAIN config.topology_metadata
    /\ Cardinality(config.areas) >= 2
    /\ "0" \notin config.areas
    /\ HasAreaBorderRouter
    /\ topology_type = "single_area"

\* C10: in a single-area topology every entry is tagged "O"; otherwise an
\* entry is tagged "O" when the area of the destination interface that
\* produced it is an area of the source router, and "O IA" when it is not.
C10_RouteTypeTag ==
    Routed =>
        \A e \in Entries :
            LET q == FirstOnNetwork(router_name, e.network)
                dest_area == config.routers[q[1]].interfaces[q[2]].area
            IN e.route_type =
                  IF topology_type \in SingleArea THEN "O"
                  ELSE IF dest_area \in AreasOf(router_name) THEN "O" ELSE "O IA"

\* a table of a topology that is not single-area with entries of both tags
C10_Witness ==
    /\ Routed
    /\ topology_type \notin SingleArea
    /\ \E e \in Entries : e.route_type = "O"
    /\ \E e \in Entries : e.route_type = "O IA"

\* --------------------------------------------------- next hops of an entry
\* the graph without the node s and its edges
Without(g, s) ==
    [nodes |-> SelectSeq(g.nodes, LAMBDA n : n # s),
     adj |-> g.adj,
     attrs |-> [e \in {f \in DOMAIN g.attrs : s \notin f} |-> g.attrs[e]]]

\* h is the second router of a minimum-cost path from s to d that visits s
\* once: the edge s-h and a cheapest way from h to d that avoids s add up to
\* the least weight of the walks from s to d
IsMinCostNextHop(g, s, h, d) ==
    /\ h # s
    /\ {s, h} \in Edges(g)
    /\ LET total == ShortestWalk(g, s)[d]
           rest == ShortestWalk(Without(g, s), h)[d]
       IN /\ total < Inf
          /\ rest < Inf
          /\ Weight(g, s, h) + rest = total

\* the interfaces of the source, as loaded, and the positions of those that
\* name h as their connected router
SourceInterfaces == GetRouter(routers, router_name).interfaces

InterfacesTo(h) == {j \in DOMAIN SourceInterfaces : SourceInterfaces[j].connected_router = h}

\* the lookup of both values ends at the first interface that names h: the
\* pair is resolved when there is one and it has a neighbour IP
Resolved(h) ==
    /\ InterfacesTo(h) # {}
    /\ SourceInterfaces[SetMin(InterfacesTo(h))].neighbor_ip # NoIp

\* the networks the table has an entry group for: those of the routers
\* other than the source that are not attached to the source
RoutedNetworks ==
    (UNION {NetworksOf(d) : d \in ConfigNames \ {router_name}}) \ NetworksOf(router_name)

DestinationOf(n) == config.routers[FirstOnNetwork(router_name, n)[1]].name

\* the entries of network n that leave through an interface naming h
EntriesFor(n, h) ==
    {e \in Entries :
        /\ e.network = n
        /\ \E j \in InterfacesTo(h) : SourceInterfaces[j].name = e.via_interface}

\* second routers of the paths recorded for d
RecordedNextHops(d) ==
    {all_paths[d][i][2] : i \in {k \in DOMAIN all_paths[d] : Len(all_paths[d][k]) > 1}}

\* C11: every entry has a next-hop IP and an outbound interface; that
\* interface is one of the source router, its connected router is the second
\* router of a minimum-cost path from the source to the destination router
\* of the entry, and the next-hop IP is that interface's neighbour IP.  A
\* (network, next hop) pair is resolved through the first interface of the
\* source that names the next hop: when that fails there is no entry for the
\* pair, and every other pair of a recorded next hop has its entry.
C11_EntriesResolvedOrOmitted ==
    (Routed /\ NonNegativeWeights(graph)) =>
        /\ \A e \in Entries :
              /\ e.next_hop # NoIp
              /\ \E j \in DOMAIN SourceInterfaces :
                    /\ SourceInterfaces[j].name = e.via_interface
                    /\ SourceInterfaces[j].connected_router # None
                    /\ IsMinCostNextHop(graph, router_name,
                                        SourceInterfaces[j].connected_router,
                                        DestinationOf(e.network))
                    /\ e.next_hop = SourceInterfaces[j].neighbor_ip
        /\ \A n \in RoutedNetworks :
              \A h \in RecordedNextHops(DestinationOf(n)) :
                  IF Resolved(h)
                  THEN \E e \in EntriesFor(n, h) :
                          e.via_interface = SourceInterfaces[SetMin(InterfacesTo(h))].name
                  ELSE EntriesFor(n, h) = {}

\* a network with two recorded next hops: one is a neighbour that the
\* source has no interface to, one is a neighbour whose interface has no
\* neighbour IP or the pair is resolved, and the network has an entry
C11_Witness ==
    /\ Routed
    /\ \E n \in RoutedNetworks :
          /\ \E h \in RecordedNextHops(DestinationOf(n)) : ~Resolved(h)
          /\ \E h \in RecordedNextHops(DestinationOf(n)) : Resolved(h)
          /\ \E e \in Entries : e.network = n

====
